---- MODULE Spec2Model ----
(***************************************************************************)
(* betterforms/changelist.py: the sort descriptor codec of SortForm, the   *)
(* click-to-toggle links of BoundHeader, the order resolver, and the       *)
(* multi-field search filter of SearchForm.                                *)
(*                                                                         *)
(* Text values (the raw `sorts` parameter, the query term, field values)   *)
(* are sequences of one-character strings, so that splitting, stripping,   *)
(* int() and str() are computed character by character.                    *)
(***************************************************************************)
EXTENDS Integers, Sequences, FiniteSets, TLC

\* Longest raw `sorts` parameter a client types by hand.
MaxLen == 4
\* Largest number of entries of SortForm.HEADERS.
MaxHeaders == 2

VARIABLES
    HEADERS,        \* SortForm.HEADERS: tuple of Header objects
    data,           \* form.data['sorts']: the raw sort descriptor of the request
    pc,             \* position of the request: "bound", "cleaned", "rendered", "raised"
    cleaned_data,   \* form.cleaned_data: [keys |-> fields present, sorts |-> clean_sorts()]
    errors,         \* form.errors['sorts']: error_messages keys of the ValidationErrors
    raised,         \* exception that escaped full_clean ("None" when none did)
    queryset,       \* form._queryset: [ordered |-> order_by was called, order_by |-> its arguments]
    headers,        \* form.headers as rendered: one BoundHeader per entry of HEADERS
    link,           \* the link of the previous page that produced this request
    SEARCH_FIELDS,  \* SearchForm.SEARCH_FIELDS: None, or the list of fields searched
    CASE_SENSITIVE, \* SearchForm.CASE_SENSITIVE
    search_kwargs,  \* the `search_fields` keyword argument of SearchForm(...)
    q,              \* form.data['q']: the raw query term
    spc,            \* position of the search form: "new", "constructed", "cleaned", "raised"
    sraised,        \* exception raised by SearchForm.__init__ ("None" when none was)
    squeryset       \* SearchForm._queryset: [filters |-> the Q objects passed to filter(), rows |-> records kept]

sortVars == <<HEADERS, data, pc, cleaned_data, errors, raised, queryset, headers, link>>
searchVars == <<SEARCH_FIELDS, CASE_SENSITIVE, search_kwargs, q, spc, sraised, squeryset>>
vars == <<sortVars, searchVars>>

\* ------------------------------------------------------------------ text

DigitChars == <<"0", "1", "2", "3", "4", "5", "6", "7", "8", "9">>
Digits == {DigitChars[i] : i \in 1..10}
\* Characters of a hand-typed sorts parameter.
SortChars == {"0", "1", "2", "-", ".", "a"}

Abs(i) == IF i < 0 THEN -i ELSE i

StringsUpTo(chars, n) == UNION {[1..m -> chars] : m \in 0..n}

DigitVal(c) == (CHOOSE i \in 1..10 : DigitChars[i] = c) - 1

RECURSIVE NatVal(_)
NatVal(s) == IF s = <<>> THEN 0
             ELSE 10 * NatVal(SubSeq(s, 1, Len(s) - 1)) + DigitVal(s[Len(s)])

RECURSIVE NatStr(_)
NatStr(n) == IF n < 10 THEN <<DigitChars[n + 1]>>
             ELSE NatStr(n \div 10) \o <<DigitChars[(n % 10) + 1]>>

\* str(i) of a Python int.
Str(i) == IF i < 0 THEN <<"-">> \o NatStr(-i) ELSE NatStr(i)

\* unicode.isdigit(): non-empty and digits only.
IsDigit(s) == s # <<>> /\ \A i \in 1..Len(s) : s[i] \in Digits

\* s.strip('-'): leading and trailing '-' removed.
RECURSIVE LStrip(_, _)
LStrip(s, cs) == IF s # <<>> /\ s[1] \in cs THEN LStrip(Tail(s), cs) ELSE s
RECURSIVE RStrip(_, _)
RStrip(s, cs) == IF s # <<>> /\ s[Len(s)] \in cs
                 THEN RStrip(SubSeq(s, 1, Len(s) - 1), cs) ELSE s
Strip(s, cs) == RStrip(LStrip(s, cs), cs)

\* s.split(sep): k separators give k + 1 segments, empty ones included.
RECURSIVE Split(_, _)
Split(s, sep) ==
    IF \A i \in 1..Len(s) : s[i] # sep THEN <<s>>
    ELSE LET i == CHOOSE j \in 1..Len(s) :
                      s[j] = sep /\ \A h \in 1..(j - 1) : s[h] # sep
         IN <<SubSeq(s, 1, i - 1)>> \o Split(SubSeq(s, i + 1, Len(s)), sep)

\* sep.join(parts)
RECURSIVE Join(_, _)
Join(sep, parts) ==
    IF parts = <<>> THEN <<>>
    ELSE IF Len(parts) = 1 THEN parts[1]
    ELSE parts[1] \o <<sep>> \o Join(sep, Tail(parts))

\* int(s): [ok |-> FALSE] stands for ValueError.
PyInt(s) ==
    LET body == IF s # <<>> /\ s[1] \in {"-", "+"} THEN Tail(s) ELSE s
    IN IF IsDigit(body)
       THEN [ok |-> TRUE, value |-> IF s[1] = "-" THEN -NatVal(body) ELSE NatVal(body)]
       ELSE [ok |-> FALSE, value |-> 0]

\* seq[i] of a Python sequence, i 0-based, negative i counted from the end.
InPyRange(seq, i) == -Len(seq) <= i /\ i < Len(seq)
PyIndex(seq, i) == IF i < 0 THEN seq[Len(seq) + i + 1] ELSE seq[i + 1]

\* ------------------------------------------------------------------ Header

Header(name, column_name, is_sortable) ==
    [name |-> name,
     column_name |-> IF column_name = "" THEN name ELSE column_name,
     is_sortable |-> is_sortable]

\* The declarations a view may make at each registry position; the sortable
\* flag is the view's choice.
HeaderNames == <<"title", "date", "author", "status">>
HeaderColumns == <<"headline", "", "author__name", "">>

Registries ==
    UNION {[1..n -> BOOLEAN] : n \in 0..MaxHeaders}

MakeHEADERS(flags) ==
    [i \in 1..Len(flags) |-> Header(HeaderNames[i], HeaderColumns[i], flags[i])]

\* ------------------------------------------------------------------ SortForm

NoCleanedData == [keys |-> {}, sorts |-> <<>>]

\* cleaned_data.get('sorts', [])
GetSorts(cd) == IF "sorts" \in cd.keys THEN cd.sorts ELSE <<>>

\* The same with the '-' stripped before int(), as the digit test does.
parse_sorts_stripped(sorts) ==
    [i \in 1..Len(sorts) |-> PyInt(Strip(sorts[i], {"-"})).value]

\* [int(sort) for sort in sorts], for segments int() accepts.
parse_sorts(sorts) == [i \in 1..Len(sorts) |-> PyInt(sorts[i]).value]

clean_sorts(raw, HDRS) ==
    LET sorts == SelectSeq(Split(raw, "."), LAMBDA x : x # <<>>)
        ints == parse_sorts(sorts)
    IN IF sorts = <<>>
       THEN [raised |-> "None", code |-> "", value |-> <<>>]
       ELSE IF ~ \A i \in 1..Len(sorts) : IsDigit(Strip(sorts[i], {"-"}))
       THEN [raised |-> "ValidationError", code |-> "unknown_header", value |-> <<>>]
       ELSE IF \E i \in 1..Len(sorts) : ~ PyInt(sorts[i]).ok
       THEN [raised |-> "ValueError", code |-> "", value |-> <<>>]
       ELSE IF \E i \in 1..Len(ints) : Abs(ints[i]) > Len(HDRS)
       THEN [raised |-> "ValidationError", code |-> "unknown_header", value |-> <<>>]
       ELSE IF \E i \in 1..Len(ints) : ~ InPyRange(HDRS, Abs(ints[i]) - 1)
       THEN [raised |-> "IndexError", code |-> "", value |-> <<>>]
       ELSE IF ~ \A i \in 1..Len(ints) : PyIndex(HDRS, Abs(ints[i]) - 1).is_sortable
       THEN [raised |-> "ValidationError", code |-> "unsortable_header", value |-> <<>>]
       ELSE [raised |-> "None", code |-> "", value |-> ints]

error_messages(code) ==
    CASE code = "unknown_header" -> "Invalid sort parameter"
      [] code = "unsortable_header" -> "Invalid sort parameter"

get_order_by(cd, HDRS) ==
    LET sorts == GetSorts(cd)
    IN [i \in 1..Len(sorts) |->
          LET param == PyIndex(HDRS, Abs(sorts[i]) - 1).column_name
          IN IF sorts[i] < 0 THEN "-" \o param ELSE param]

get_queryset(cd, HDRS) ==
    LET order_by == get_order_by(cd, HDRS)
    IN IF order_by # <<>>
       THEN [ordered |-> TRUE, order_by |-> order_by]
       ELSE [ordered |-> FALSE, order_by |-> <<>>]

BaseQueryset == [ordered |-> FALSE, order_by |-> <<>>]

\* ------------------------------------------------------------------ BoundHeader

\* add_to_sorts inverting every key when the header is primary.
add_to_sorts_invert_all(sorts, sort_index) ==
    IF sorts # <<>> /\ Abs(sorts[1]) = sort_index
    THEN [i \in 1..Len(sorts) |-> -1 * sorts[i]]
    ELSE <<sort_index>> \o SelectSeq(sorts, LAMBDA x : Abs(x) # sort_index)

\* add_to_sorts taking the other keys over with their direction inverted.
add_to_sorts_demote(sorts, sort_index) ==
    IF sorts # <<>> /\ Abs(sorts[1]) = sort_index
    THEN <<-1 * sorts[1]>> \o Tail(sorts)
    ELSE LET rest == SelectSeq(sorts, LAMBDA x : Abs(x) # sort_index)
         IN <<sort_index>> \o [i \in 1..Len(rest) |-> -1 * rest[i]]

\* add_to_sorts comparing the signed entry, so that a descending key stays.
add_to_sorts_signed(sorts, sort_index) ==
    IF sorts # <<>> /\ Abs(sorts[1]) = sort_index
    THEN <<-1 * sorts[1]>> \o Tail(sorts)
    ELSE <<sort_index>> \o SelectSeq(sorts, LAMBDA x : x # sort_index)

add_to_sorts(sorts, sort_index) ==
    IF sorts # <<>> /\ Abs(sorts[1]) = sort_index
    THEN <<-1 * sorts[1]>> \o Tail(sorts)
    ELSE <<sort_index>> \o SelectSeq(sorts, LAMBDA x : Abs(x) # sort_index)

\* add_to_sorts()[1:] without the slice.
remove_sorts_unsliced(sorts, sort_index) == add_to_sorts(sorts, sort_index)

\* add_to_sorts()[1:], the descriptor of the remove link.
remove_sorts(sorts, sort_index) == Tail(add_to_sorts(sorts, sort_index))

\* '.'.join(map(str, descriptor))
Encode(descriptor) == Join(".", [i \in 1..Len(descriptor) |-> Str(descriptor[i])])

BoundHeader(cd, HDRS, index) ==
    LET sorts == GetSorts(cd)
        sort_index == index + 1
    IN [name |-> HDRS[index + 1].name,
        column_name |-> HDRS[index + 1].column_name,
        is_sortable |-> HDRS[index + 1].is_sortable,
        sorts |-> sorts,
        sort_index |-> sort_index,
        is_active |-> \E i \in 1..Len(sorts) : Abs(sorts[i]) = sort_index,
        is_ascending |-> \E i \in 1..Len(sorts) : sorts[i] = sort_index,
        add_to_sorts |-> add_to_sorts(sorts, sort_index),
        remove_sorts |-> remove_sorts(sorts, sort_index),
        querystring |-> Encode(add_to_sorts(sorts, sort_index)),
        singular_querystring |-> Str(sort_index),
        remove_querystring |-> Encode(remove_sorts(sorts, sort_index))]

HeaderSet(cd, HDRS) == [i \in 1..Len(HDRS) |-> BoundHeader(cd, HDRS, i - 1)]

Typed == [kind |-> "typed", header |-> 0, from |-> <<>>, to |-> <<>>]

\* ------------------------------------------------------------------ SearchForm

\* Longest raw query term.
MaxTerm == 2
\* Largest number of declared search fields.
MaxFields == 2

None == [type |-> "NoneType", items |-> <<>>]
List(items) == [type |-> "list", items |-> items]
Absent == [type |-> "absent", items |-> <<>>]

TermChars == {"a", "A", "b", " "}
Whitespace == {" "}
FieldNames == <<"name", "email", "city">>
FieldValues == {<<>>, <<"a">>, <<"A", "b">>, <<"b", "a">>}

\* The record source: every record over the declared columns.
Records == [{FieldNames[i] : i \in 1..MaxFields} -> FieldValues]

LowerChar(c) == IF c = "A" THEN "a" ELSE c
Lower(s) == [i \in 1..Len(s) |-> LowerChar(s[i])]

\* The substring test of the `contains` lookup.
Contains(value, term) ==
    \E i \in 0..(Len(value) - Len(term)) : SubSeq(value, i + 1, i + Len(term)) = term

\* Q(**{field + '__contains': q}), Q(**{field + '__icontains': q}) and x | y
Q(field, lookup, term) ==
    [connector |-> "LEAF", field |-> field, lookup |-> lookup, value |-> term,
     children |-> <<>>]
QOr(x, y) ==
    [connector |-> "OR", field |-> "", lookup |-> "", value |-> <<>>,
     children |-> <<x, y>>]

RECURSIVE QMatches(_, _)
QMatches(cond, record) ==
    IF cond.connector = "LEAF"
    THEN IF cond.lookup = "contains"
         THEN Contains(record[cond.field], cond.value)
         ELSE Contains(Lower(record[cond.field]), Lower(cond.value))
    ELSE QMatches(cond.children[1], record) \/ QMatches(cond.children[2], record)

\* reduce(lambda x, y: x | y, args)
RECURSIVE Reduce(_)
Reduce(args) ==
    IF Len(args) = 1 THEN args[1]
    ELSE QOr(Reduce(SubSeq(args, 1, Len(args) - 1)), args[Len(args)])

Filter(qs, cond) ==
    [filters |-> Append(qs.filters, cond),
     rows |-> {r \in qs.rows : QMatches(cond, r)}]

SearchBase == [filters |-> <<>>, rows |-> Records]

\* get_queryset without the strip() of the term.
search_get_queryset_unstripped(raw, fields, case_sensitive) ==
    LET args == [i \in 1..Len(fields) |->
                    IF case_sensitive
                    THEN Q(fields[i], "contains", raw)
                    ELSE Q(fields[i], "icontains", raw)]
    IN IF raw # <<>>
       THEN IF Len(args) > 1 THEN Filter(SearchBase, Reduce(args))
            ELSE IF Len(args) = 1 THEN Filter(SearchBase, args[1])
            ELSE SearchBase
       ELSE SearchBase

search_get_queryset(raw, fields, case_sensitive) ==
    LET qs == SearchBase
        term == Strip(raw, Whitespace)
        args == [i \in 1..Len(fields) |->
                    IF case_sensitive
                    THEN Q(fields[i], "contains", term)
                    ELSE Q(fields[i], "icontains", term)]
    IN IF term # <<>>
       THEN IF Len(args) > 1 THEN Filter(qs, Reduce(args))
            ELSE IF Len(args) = 1 THEN Filter(qs, args[1])
            ELSE qs
       ELSE qs

FieldLists == {[i \in 1..n |-> FieldNames[i]] : n \in 0..MaxFields}

SearchIdle ==
    /\ SEARCH_FIELDS = None
    /\ CASE_SENSITIVE = FALSE
    /\ search_kwargs = Absent
    /\ q = <<>>
    /\ spc = "idle"
    /\ sraised = "None"
    /\ squeryset = SearchBase

SortIdle ==
    /\ HEADERS = <<>>
    /\ data = <<>>
    /\ pc = "idle"
    /\ cleaned_data = NoCleanedData
    /\ errors = {}
    /\ raised = "None"
    /\ queryset = BaseQueryset
    /\ headers = <<>>
    /\ link = Typed

\* A SearchForm subclass and the arguments of one instantiation.
SearchInit ==
    /\ SortIdle
    /\ SEARCH_FIELDS \in {None} \cup {List(f) : f \in FieldLists}
    /\ CASE_SENSITIVE \in BOOLEAN
    /\ search_kwargs \in {Absent, List(<<>>), List(<<FieldNames[MaxFields]>>)}
    /\ q \in StringsUpTo(TermChars, MaxTerm)
    /\ spc = "new"
    /\ sraised = "None"
    /\ squeryset = SearchBase

\* SearchForm.__init__
search_init(class_fields, kwargs) ==
    LET fields == IF kwargs.type = "absent" THEN class_fields ELSE kwargs
    IN [SEARCH_FIELDS |-> fields,
        raised |-> IF fields.type = "NoneType" THEN "ImproperlyConfigured" ELSE "None"]

SearchConstruct ==
    /\ spc = "new"
    /\ LET r == search_init(SEARCH_FIELDS, search_kwargs)
       IN /\ SEARCH_FIELDS' = r.SEARCH_FIELDS
          /\ sraised' = r.raised
          /\ spc' = IF r.raised = "None" THEN "constructed" ELSE "raised"
    /\ UNCHANGED <<CASE_SENSITIVE, search_kwargs, q, squeryset>>
    /\ UNCHANGED sortVars

\* BaseChangeListForm.full_clean on a SearchForm.
SearchFullClean ==
    /\ spc = "constructed"
    /\ squeryset' = search_get_queryset(q, SEARCH_FIELDS.items, CASE_SENSITIVE)
    /\ spc' = "cleaned"
    /\ UNCHANGED <<SEARCH_FIELDS, CASE_SENSITIVE, search_kwargs, q, sraised>>
    /\ UNCHANGED sortVars

SearchNext == SearchConstruct \/ SearchFullClean

SearchSpec == SearchInit /\ [][SearchNext]_vars

\* ------------------------------------------------------------------ requests

SortInit ==
    /\ SearchIdle
    /\ HEADERS \in {MakeHEADERS(f) : f \in Registries}
    /\ data \in StringsUpTo(SortChars, MaxLen)
    /\ pc = "bound"
    /\ cleaned_data = NoCleanedData
    /\ errors = {}
    /\ raised = "None"
    /\ queryset = BaseQueryset
    /\ headers = <<>>
    /\ link = Typed

\* BaseChangeListForm.full_clean: the field cleaning, then get_queryset.
\* A ValidationError of clean_sorts leaves 'sorts' out of cleaned_data and its
\* message in the form's errors; any other exception escapes full_clean.
FullClean ==
    /\ pc = "bound"
    /\ LET r == clean_sorts(data, HEADERS)
           cd == IF r.raised = "None"
                 THEN [keys |-> {"sorts"}, sorts |-> r.value]
                 ELSE NoCleanedData
       IN IF r.raised \in {"ValueError", "IndexError"}
          THEN /\ raised' = r.raised
               /\ pc' = "raised"
               /\ UNCHANGED <<cleaned_data, errors, queryset>>
          ELSE /\ cleaned_data' = cd
               /\ errors' = IF r.raised = "ValidationError"
                            THEN {error_messages(r.code)} ELSE {}
               /\ queryset' = get_queryset(cd, HEADERS)
               /\ pc' = "cleaned"
               /\ UNCHANGED raised
    /\ UNCHANGED <<HEADERS, data, headers, link>>
    /\ UNCHANGED searchVars

\* The template iterates form.headers.
Render ==
    /\ pc = "cleaned"
    /\ headers' = HeaderSet(cleaned_data, HEADERS)
    /\ pc' = "rendered"
    /\ UNCHANGED <<HEADERS, data, cleaned_data, errors, raised, queryset, link>>
    /\ UNCHANGED searchVars

\* The client follows one of the three links of header k; a new form is bound
\* to the request.
NewRequest(raw, via) ==
    /\ data' = raw
    /\ link' = via
    /\ pc' = "bound"
    /\ cleaned_data' = NoCleanedData
    /\ errors' = {}
    /\ queryset' = BaseQueryset
    /\ headers' = <<>>
    /\ UNCHANGED <<HEADERS, raised>>
    /\ UNCHANGED searchVars

FollowToggle(k) ==
    /\ pc = "rendered"
    /\ NewRequest(headers[k].querystring,
                  [kind |-> "toggle", header |-> k,
                   from |-> headers[k].sorts, to |-> headers[k].add_to_sorts])

FollowSingular(k) ==
    /\ pc = "rendered"
    /\ NewRequest(headers[k].singular_querystring,
                  [kind |-> "singular", header |-> k,
                   from |-> headers[k].sorts, to |-> <<headers[k].sort_index>>])

FollowRemove(k) ==
    /\ pc = "rendered"
    /\ NewRequest(headers[k].remove_querystring,
                  [kind |-> "remove", header |-> k,
                   from |-> headers[k].sorts, to |-> headers[k].remove_sorts])

SortNext ==
    \/ FullClean
    \/ Render
    \/ \E k \in 1..Len(HEADERS) : FollowToggle(k)
    \/ \E k \in 1..Len(HEADERS) : FollowSingular(k)
    \/ \E k \in 1..Len(HEADERS) : FollowRemove(k)

Spec == SortInit /\ [][SortNext]_vars

\* ------------------------------------------------------------------ properties

\* The request has been through full_clean.
Cleaned == pc \in {"cleaned", "rendered"}
Processed == pc \in {"cleaned", "rendered", "raised"}

\* d with every entry of column k deleted, the others in place.
RECURSIVE Without(_, _)
Without(d, k) ==
    IF d = <<>> THEN <<>>
    ELSE IF Abs(Head(d)) = k THEN Without(Tail(d), k)
    ELSE <<Head(d)>> \o Without(Tail(d), k)

Occurrences(d, k) == Cardinality({i \in 1..Len(d) : Abs(d[i]) = k})

\* A '.'-separated segment of the form -?[0-9]+, and its magnitude.
SignedDecimal(seg) ==
    /\ seg # <<>>
    /\ IsDigit(IF seg[1] = "-" THEN Tail(seg) ELSE seg)
Magnitude(seg) == NatVal(IF seg[1] = "-" THEN Tail(seg) ELSE seg)
Segments(x) == Split(x, ".")

\* Unique, non-zero magnitudes within [1, n].
GoodDescriptor(d, n) ==
    /\ \A i \in 1..Len(d) : d[i] # 0 /\ Abs(d[i]) <= n
    /\ \A i, j \in 1..Len(d) : Abs(d[i]) = Abs(d[j]) => i = j

\* C1: for every current descriptor and every header index k, add_to_sorts
\* returns the descriptor with only its first element negated when that
\* element has magnitude k, and otherwise +k followed by the current elements
\* of another magnitude, in their order and with their signs.
C1_Toggle ==
    pc = "rendered" =>
        \A k \in 1..Len(headers) :
            LET cur == headers[k].sorts
                new == headers[k].add_to_sorts
            IN IF cur # <<>> /\ Abs(cur[1]) = k
               THEN /\ Len(new) = Len(cur)
                    /\ new[1] = -cur[1]
                    /\ \A i \in 2..Len(cur) : new[i] = cur[i]
               ELSE /\ new # <<>>
                    /\ new[1] = k
                    /\ Tail(new) = Without(cur, k)

\* A page on which one header inverts a primary sort that has followers and
\* another header is promoted from a later position.
C1_Witness ==
    /\ pc = "rendered"
    /\ \E k \in 1..Len(headers) :
           /\ Len(headers[k].sorts) >= 2
           /\ Abs(headers[k].sorts[1]) = k
           /\ headers[k].add_to_sorts[1] = -headers[k].sorts[1]
    /\ \E k \in 1..Len(headers) :
           /\ Abs(headers[k].sorts[1]) # k
           /\ Occurrences(headers[k].sorts, k) = 1
           /\ headers[k].add_to_sorts[1] = k

\* The page of the scenario: headers [title, date], raw sort "2.-1".
Scenario ==
    /\ pc = "rendered"
    /\ Len(HEADERS) = 2
    /\ HEADERS[1].name = "title" /\ HEADERS[2].name = "date"
    /\ data = <<"2", ".", "-", "1">>
    /\ GetSorts(cleaned_data) = <<2, -1>>

\* C2 as stated: clicking header 1 (title) on that page yields [1, -2].
C2_Original == Scenario => headers[1].add_to_sorts = <<1, -2>>

\* C2, amended: clicking header 1 (title) on that page yields [1, 2]: date
\* keeps the ascending sign it had.
C2_Scenario == Scenario => headers[1].add_to_sorts = <<1, 2>>

C2_Witness == Scenario /\ headers[1].querystring = <<"1", ".", "2">>

\* C3: decode fails with the validation error of an out-of-range index for
\* every raw descriptor with a segment that parses to an integer of magnitude
\* 0 or above the number of headers; no such descriptor is accepted or resolved
\* to a header.
OutOfRange(x, n) ==
    \E i \in 1..Len(Segments(x)) :
        /\ SignedDecimal(Segments(x)[i])
        /\ (Magnitude(Segments(x)[i]) = 0 \/ Magnitude(Segments(x)[i]) > n)

C3_OutOfRangeRejected ==
    Processed /\ OutOfRange(data, Len(HEADERS)) =>
        /\ raised = "None"
        /\ errors = {error_messages("unknown_header")}
        /\ "sorts" \notin cleaned_data.keys
        /\ ~ queryset.ordered

\* C4: decode ends in the sort validation error, message 'Invalid sort
\* parameter', for every raw descriptor with a non-empty segment that is not
\* of the form -?[0-9]+, and in no other kind of failure.
Malformed(x) ==
    \E i \in 1..Len(Segments(x)) :
        Segments(x)[i] # <<>> /\ ~ SignedDecimal(Segments(x)[i])

C4_MalformedRejected ==
    Processed /\ Malformed(data) =>
        /\ raised = "None"
        /\ errors = {"Invalid sort parameter"}
        /\ "sorts" \notin cleaned_data.keys

\* C5: for every validated descriptor the ordering has the descriptor's length
\* and order; entry i is the column_name of the header at registry position
\* abs(s_i) - 1, prefixed '-' exactly when s_i < 0; the empty descriptor gives
\* no ordering and no order_by call.
C5_OrderResolved ==
    Cleaned /\ "sorts" \in cleaned_data.keys =>
        LET sorts == cleaned_data.sorts
        IN /\ Len(queryset.order_by) = Len(sorts)
           /\ queryset.ordered = (sorts # <<>>)
           /\ \A i \in 1..Len(sorts) :
                  /\ Abs(sorts[i]) - 1 \in 0..(Len(HEADERS) - 1)
                  /\ queryset.order_by[i] =
                         IF sorts[i] < 0
                         THEN "-" \o HEADERS[Abs(sorts[i])].column_name
                         ELSE HEADERS[Abs(sorts[i])].column_name

\* C5 holds of every validated descriptor that has no 0 entry.
C5_NonZeroOrderResolved ==
    (Cleaned /\ "sorts" \in cleaned_data.keys
        /\ \A i \in 1..Len(cleaned_data.sorts) : cleaned_data.sorts[i] # 0)
    => C5_OrderResolved

\* C6: a SearchForm whose field list is empty fails at construction with
\* ImproperlyConfigured, as it does when the list is unset; it is never
\* constructed and never answers a non-empty query with the unfiltered source.
C6_EmptyFieldsRejected ==
    spc \in {"constructed", "cleaned", "raised"} /\ SEARCH_FIELDS = List(<<>>) =>
        /\ spc = "raised"
        /\ sraised = "ImproperlyConfigured"
        /\ ~ (Strip(q, Whitespace) # <<>> /\ squeryset.filters = <<>>)

\* C7: with a non-empty field list, no filter is applied when the query is
\* empty after trimming; otherwise exactly one filter is applied, satisfied by
\* a record iff some declared field contains the trimmed term (case-sensitive
\* when CASE_SENSITIVE, case-insensitive otherwise); a single field's filter is
\* that field's test alone.
FieldContains(record, field, term, case_sensitive) ==
    IF case_sensitive THEN Contains(record[field], term)
    ELSE Contains(Lower(record[field]), Lower(term))

C7_SearchFilter ==
    spc = "cleaned" /\ SEARCH_FIELDS.items # <<>> =>
        LET fields == SEARCH_FIELDS.items
            term == Strip(q, Whitespace)
            hit(r) == \E i \in 1..Len(fields) :
                          FieldContains(r, fields[i], term, CASE_SENSITIVE)
        IN IF term = <<>>
           THEN squeryset.filters = <<>> /\ squeryset.rows = Records
           ELSE /\ Len(squeryset.filters) = 1
                /\ \A r \in Records : QMatches(squeryset.filters[1], r) <=> hit(r)
                /\ squeryset.rows = {r \in Records : hit(r)}
                /\ Len(fields) = 1 =>
                       squeryset.filters[1] =
                           Q(fields[1],
                             IF CASE_SENSITIVE THEN "contains" ELSE "icontains", term)

\* A two-field, case-insensitive search whose term was trimmed and keeps some
\* records and drops others.
C7_Witness ==
    /\ spc = "cleaned"
    /\ Len(SEARCH_FIELDS.items) = 2
    /\ ~ CASE_SENSITIVE
    /\ Strip(q, Whitespace) # <<>>
    /\ Strip(q, Whitespace) # q
    /\ Len(squeryset.filters) = 1
    /\ squeryset.filters[1].connector = "OR"
    /\ squeryset.rows # {}
    /\ squeryset.rows # Records

\* Every segment of x has the form -?[0-9]+ with a magnitude in [1, n] and
\* names a sortable header.
ValidRaw(x) ==
    \A i \in 1..Len(Segments(x)) :
        /\ SignedDecimal(Segments(x)[i])
        /\ Magnitude(Segments(x)[i]) \in 1..Len(HEADERS)
        /\ HEADERS[Magnitude(Segments(x)[i])].is_sortable

NoLeadingZero(x) ==
    \A i \in 1..Len(Segments(x)) :
        LET seg == Segments(x)[i]
        IN (IF seg[1] = "-" THEN Tail(seg) ELSE seg)[1] # "0"

RoundTrips ==
    /\ raised = "None"
    /\ errors = {}
    /\ "sorts" \in cleaned_data.keys
    /\ Encode(cleaned_data.sorts) = data

\* C8 as stated: encoding the decoded descriptor reproduces every valid raw
\* descriptor character for character, leading zeros included.
C8_Original == Processed /\ ValidRaw(data) => RoundTrips

\* C8, amended: encoding the decoded descriptor reproduces every valid raw
\* descriptor none of whose segments has a leading zero.
C8_RoundTrip == Processed /\ ValidRaw(data) /\ NoLeadingZero(data) => RoundTrips

C8_Witness ==
    /\ Cleaned
    /\ ValidRaw(data) /\ NoLeadingZero(data)
    /\ Len(cleaned_data.sorts) = 2
    /\ cleaned_data.sorts[1] < 0
    /\ Encode(cleaned_data.sorts) = data

\* The remove link of header k carries the current descriptor without the
\* entries of column k.
RemoveDeletes(k) ==
    LET cur == headers[k].sorts
        rem == headers[k].remove_sorts
    IN /\ \A i \in 1..Len(rem) : Abs(rem[i]) # k
       /\ rem = Without(cur, k)
       /\ headers[k].remove_querystring = Encode(Without(cur, k))

\* C9 as stated: for every descriptor decode accepts and every header k.
C9_Original ==
    pc = "rendered" => \A k \in 1..Len(headers) : RemoveDeletes(k)

\* C9, amended: for every descriptor decode accepts and every header k that
\* occurs at most once in it.
C9_Remove ==
    pc = "rendered" =>
        \A k \in 1..Len(headers) :
            Occurrences(headers[k].sorts, k) <= 1 => RemoveDeletes(k)

\* A page whose remove links drop a primary and a secondary sort key.
C9_Witness ==
    /\ pc = "rendered"
    /\ \E k \in 1..Len(headers) :
           /\ Len(headers[k].sorts) = 2
           /\ Abs(headers[k].sorts[1]) = k
           /\ headers[k].remove_sorts = Tail(headers[k].sorts)
    /\ \E k \in 1..Len(headers) :
           /\ Len(headers[k].sorts) = 2
           /\ Abs(headers[k].sorts[2]) = k
           /\ headers[k].remove_sorts = <<headers[k].sorts[1]>>

\* C10: a link (toggle, singular, remove) built from a descriptor with unique,
\* non-zero, in-range magnitudes carries such a descriptor again, and when the
\* clicked header is sortable the next request decodes to exactly it; so every
\* descriptor along a chain of link follows from such a start is of that kind.
C10_LinksKeepInvariant ==
    link.kind # "typed" /\ GoodDescriptor(link.from, Len(HEADERS)) =>
        /\ GoodDescriptor(link.to, Len(HEADERS))
        /\ pc # "raised"
        /\ Cleaned =>
               /\ GoodDescriptor(GetSorts(cleaned_data), Len(HEADERS))
               /\ HEADERS[link.header].is_sortable =>
                      /\ errors = {}
                      /\ "sorts" \in cleaned_data.keys
                      /\ cleaned_data.sorts = link.to

\* The third request of a chain: a toggle link built from a descriptor that
\* a link had produced, decoded to a two-key descriptor with a descending key.
C10_Witness ==
    /\ pc = "rendered"
    /\ link.kind = "toggle"
    /\ Len(link.from) = 1 /\ link.from[1] < 0
    /\ Len(link.to) = 2
    /\ GoodDescriptor(link.to, Len(HEADERS))
    /\ GetSorts(cleaned_data) = link.to

====
